---- MODULE Spec2Model ----
(***************************************************************************)
(* zbus_xmlgen/src/gen.rs: the generator of a dbus_proxy trait from a      *)
(* D-Bus introspection interface.                                          *)
(*                                                                         *)
(* A character is a one-character string and a Rust string (a signature, a *)
(* name) is the sequence of its characters.  A generated text is the       *)
(* sequence of the fragments it is made of (string literals of the source  *)
(* and characters of names): format!/push/join are concatenations (\o).    *)
(* A leading "&" and the lifetime "<'_>" are fragments of their own.       *)
(***************************************************************************)
EXTENDS Integers, Sequences, FiniteSets, TLC

VARIABLES
    pc,       \* "call" before the operation under check has run, then "done" | "panicked"
    ty,       \* to_rust_type: the signature (ty: &str)
    input,    \* to_rust_type: input
    as_ref,   \* to_rust_type: as_ref
    it,       \* to_rust_type: the number of bytes the cursor `it` has yielded
    ret,      \* to_rust_type: the String returned
    calls,    \* to_rust_type: one record per invocation of iter_to_rust_type, in call order
    args,     \* inputs_output_from_args / parse_signal_args: args: &[Arg]
    inputs,   \* inputs_output_from_args: first String of the pair; parse_signal_args: its String
    output,   \* inputs_output_from_args: second String of the pair
    iface,    \* GenTrait: the Interface
    f         \* GenTrait::fmt: the lines written to the Formatter

vars == <<pc, ty, input, as_ref, it, ret, calls, args, inputs, output, iface, f>>

\* ------------------------------------------------------------------ bounds

\* longest well-formed signature drawn
MaxLen == 7
\* longest arbitrary (mostly malformed) signature drawn
MaxJunkLen == 4

\* ------------------------------------------------------------ signatures

\* Option<T>: None, and Some(x)
None == <<>>

Some(x) == <<x>>

\* the single-character codes that are a complete type
BasicCodes == {"y", "b", "n", "q", "i", "u", "x", "t", "d", "h", "s", "o", "g", "v"}

\* the leaf codes of the composite signatures drawn
LeafCodes == {"i", "s", "v"}

\* the characters of the arbitrary signatures drawn ("z" is no type code)
JunkCodes == {"i", "s", "a", "(", ")", "{", "}", "z"}

\* end of one complete type of s starting after i characters, or -1
RECURSIVE ParseType(_, _)
RECURSIVE ParseMembers(_, _, _)
ParseMembers(s, i, n) ==
    IF i >= Len(s) THEN -1
    ELSE IF s[i + 1] = ")" THEN (IF n >= 1 THEN i + 1 ELSE -1)
    ELSE LET e == ParseType(s, i)
         IN  IF e = -1 THEN -1 ELSE ParseMembers(s, e, n + 1)

ParseDictEntry(s, i) ==
    LET k == ParseType(s, i)
        v == IF k = -1 THEN -1 ELSE ParseType(s, k)
    IN  IF v # -1 /\ v < Len(s) /\ s[v + 1] = "}" THEN v + 1 ELSE -1

ParseType(s, i) ==
    IF i >= Len(s) THEN -1
    ELSE LET c == s[i + 1]
         IN  IF c \in BasicCodes THEN i + 1
             ELSE IF c = "a"
                  THEN IF i + 1 < Len(s) /\ s[i + 2] = "{"
                       THEN ParseDictEntry(s, i + 2)
                       ELSE ParseType(s, i + 1)
             ELSE IF c = "(" THEN ParseMembers(s, i + 1, 0)
             ELSE -1

\* s is one complete type of the D-Bus signature grammar
WellFormed(s) == ParseType(s, 0) = Len(s)

\* the well-formed signatures of each length: one complete type, and one or more
\* (the latter only as far as a structure of MaxLen characters can hold them)
Grammar[n \in 0..MaxLen] ==
    IF n = 0 THEN [one |-> {}, many |-> {}]
    ELSE LET arr == IF n >= 2 THEN {<<"a">> \o t : t \in Grammar[n - 1].one} ELSE {}
             str == IF n >= 3 THEN {<<"(">> \o m \o <<")">> : m \in Grammar[n - 2].many}
                    ELSE {}
             dic == IF n >= 5
                    THEN UNION {{<<"a", "{">> \o k \o v \o <<"}">> :
                                    k \in Grammar[j].one, v \in Grammar[n - 3 - j].one} :
                                j \in 1..(n - 4)}
                    ELSE {}
             one == (IF n = 1 THEN {<<c>> : c \in LeafCodes} ELSE {}) \cup arr \cup str \cup dic
             seq == IF n <= MaxLen - 2
                    THEN UNION {{t \o m : t \in Grammar[j].one, m \in Grammar[n - j].many} :
                                   j \in 1..(n - 1)}
                    ELSE {}
         IN  [one |-> one, many |-> one \cup seq]

\* every string over JunkCodes of length n
RECURSIVE Strings(_)
Strings(n) ==
    IF n = 0 THEN {<<>>}
    ELSE {Append(s, c) : s \in Strings(n - 1), c \in JunkCodes}

\* the signatures to_rust_type is called with
Signatures ==
    {<<c>> : c \in BasicCodes}
        \cup UNION {Grammar[n].one : n \in 1..MaxLen}
        \cup UNION {Strings(n) : n \in 0..MaxJunkLen}

\* ------------------------------------------------------------ to_rust_type

\* [String]::join(sep)
RECURSIVE Join(_, _)
Join(vec, sep) ==
    IF Len(vec) = 0 THEN <<>>
    ELSE IF Len(vec) = 1 THEN vec[1]
    ELSE vec[1] \o sep \o Join(Tail(vec), sep)

\* a panic: unwrap() of None, unimplemented!(), an index out of bounds
Panic(i) == [ok |-> FALSE, ty |-> <<>>, it |-> i, calls |-> <<>>]

\* a return of iter_to_rust_type entered with the cursor at i0, leaving it at i;
\* nested holds the invocations made meanwhile
Return(text, i, i0, in, ref, nested) ==
    [ok |-> TRUE, ty |-> text, it |-> i,
     calls |-> <<[at |-> i0, input |-> in, as_ref |-> ref, ty |-> text]>> \o nested]

\* the arms of the match that return a fixed type
ScalarType(c) ==
    CASE c = "y" -> <<"u8">>
      [] c = "b" -> <<"bool">>
      [] c = "n" -> <<"i16">>
      [] c = "q" -> <<"u16">>
      [] c = "i" -> <<"i32">>
      [] c = "u" -> <<"u32">>
      [] c = "x" -> <<"i64">>
      [] c = "t" -> <<"u64">>
      [] c = "d" -> <<"f64">>

\* 'h'
FdType(in) == IF in THEN <<"zbus::zvariant::Fd">> ELSE <<"zbus::zvariant::OwnedFd">>

\* <&str>::SIGNATURE_CHAR
StrType(in, ref) == IF in \/ ref THEN <<"&", "str">> ELSE <<"String">>

\* ObjectPath, Signature and VARIANT_SIGNATURE_CHAR: borrowed, by value, owned
RefOrOwned(in, ref, name, owned) ==
    IF in
    THEN IF ref THEN <<"&", name, "<'_>">> ELSE <<name, "<'_>">>
    ELSE <<owned>>

ObjectPathType(in, ref) ==
    RefOrOwned(in, ref, "zbus::zvariant::ObjectPath", "zbus::zvariant::OwnedObjectPath")

SignatureType(in, ref) ==
    RefOrOwned(in, ref, "zbus::zvariant::Signature", "zbus::zvariant::OwnedSignature")

\* VariantType with the test of the string arm (input || as_ref)
VariantType_RefWhenAsked(in, ref) ==
    RefOrOwned(in \/ ref, ref, "zbus::zvariant::Value", "zbus::zvariant::OwnedValue")

VariantType(in, ref) ==
    RefOrOwned(in, ref, "zbus::zvariant::Value", "zbus::zvariant::OwnedValue")

\* the array arm once the element is decoded
ArrayType(elem, in, ref) ==
    IF in THEN <<"&", "[">> \o elem \o <<"]">>
    ELSE (IF ref THEN <<"&">> ELSE <<>>) \o <<"Vec<">> \o elem \o <<">">>

\* the array arm when a dict entry follows
HashMapType(entry) == <<"std::collections::HashMap<">> \o entry \o <<">">>

\* NestedAsRef handing the caller's as_ref down
NestedAsRef_Propagated(ref) == ref

\* what a nested decode is given for as_ref
NestedAsRef(ref) == FALSE

\* what a nested decode is given for input
NestedInput(in) == in

\* the test that ends the loop over the members
IsEndChar(c) == c \in {")", "}"}

\* the cursor once the loop has seen the closing character at i (peeked, not taken)
AfterLoop(i) == i

\* the struct / dict entry arm once the loop has ended
Aggregate(dict, vec, ref) ==
    IF dict THEN [ok |-> TRUE, ty |-> Join(vec, <<", ">>)]
    ELSE IF Len(vec) > 1
         THEN [ok |-> TRUE,
               ty |-> (IF ref THEN <<"&">> ELSE <<>>) \o <<"(">> \o Join(vec, <<", ">>) \o <<")">>]
    ELSE IF Len(vec) = 1 THEN [ok |-> TRUE, ty |-> vec[1]]
    ELSE [ok |-> FALSE, ty |-> <<>>]

RECURSIVE iter_to_rust_type(_, _, _, _)
RECURSIVE MembersLoop(_, _, _, _, _)
\* the loop of the struct / dict entry arm: vec and the invocations made so far
MembersLoop(s, i, in, vec, nested) ==
    IF i >= Len(s) THEN Panic(i)
    ELSE IF IsEndChar(s[i + 1])
         THEN [ok |-> TRUE, vec |-> vec, it |-> AfterLoop(i), calls |-> nested]
    ELSE LET r == iter_to_rust_type(s, i, NestedInput(in), NestedAsRef(FALSE))
         IN  IF r.ok
             THEN MembersLoop(s, r.it, in, Append(vec, r.ty), nested \o r.calls)
             ELSE Panic(r.it)

iter_to_rust_type(s, i, in, ref) ==
    IF i >= Len(s) THEN Panic(i)
    ELSE LET c == s[i + 1]
             n == i + 1
         IN  IF c \in {"y", "b", "n", "q", "i", "u", "x", "t", "d"}
                 THEN Return(ScalarType(c), n, i, in, ref, <<>>)
             ELSE IF c = "h" THEN Return(FdType(in), n, i, in, ref, <<>>)
             ELSE IF c = "s" THEN Return(StrType(in, ref), n, i, in, ref, <<>>)
             ELSE IF c = "o" THEN Return(ObjectPathType(in, ref), n, i, in, ref, <<>>)
             ELSE IF c = "g" THEN Return(SignatureType(in, ref), n, i, in, ref, <<>>)
             ELSE IF c = "v" THEN Return(VariantType(in, ref), n, i, in, ref, <<>>)
             ELSE IF c = "a" THEN
                 IF n >= Len(s) THEN Panic(n)
                 ELSE LET r == iter_to_rust_type(s, n, NestedInput(in), NestedAsRef(ref))
                      IN  IF ~r.ok THEN Panic(r.it)
                          ELSE IF s[n + 1] = "{"
                               THEN Return(HashMapType(r.ty), r.it, i, in, ref, r.calls)
                          ELSE Return(ArrayType(r.ty, in, ref), r.it, i, in, ref, r.calls)
             ELSE IF c \in {"(", "{"} THEN
                 LET l == MembersLoop(s, n, in, <<>>, <<>>)
                     a == Aggregate(c = "{", l.vec, ref)
                 IN  IF ~l.ok THEN Panic(l.it)
                     ELSE IF ~a.ok THEN Panic(l.it)
                     ELSE Return(a.ty, l.it, i, in, ref, l.calls)
             ELSE Panic(n)

\* fn to_rust_type(ty: &str, input: bool, as_ref: bool) -> String
to_rust_type(s, in, ref) == iter_to_rust_type(s, 0, in, ref)

\* ------------------------------------------------------------ identifiers

\* the characters of the names, in the order of their byte values
ByteOrder ==
    <<"-", ".", "0", "1", "2", "3", "4", "5", "6", "7", "8", "9", "A", "B", "C", "D", "E", "F", "G", "H", "I", "J", "K", "L", "M", "N", "O", "P", "Q", "R", "S", "T", "U", "V", "W", "X", "Y", "Z", "_", "a", "b", "c", "d", "e", "f", "g", "h", "i", "j", "k", "l", "m", "n", "o", "p", "q", "r", "s", "t", "u", "v", "w", "x", "y", "z">>

\* the byte order of two characters
ByteLess(c, d) ==
    (CHOOSE k \in 1..Len(ByteOrder) : ByteOrder[k] = c)
        < (CHOOSE k \in 1..Len(ByteOrder) : ByteOrder[k] = d)

LowerCase ==
    <<"a", "b", "c", "d", "e", "f", "g", "h", "i", "j", "k", "l", "m", "n", "o", "p", "q", "r", "s", "t", "u", "v", "w", "x", "y", "z">>

UpperCase ==
    <<"A", "B", "C", "D", "E", "F", "G", "H", "I", "J", "K", "L", "M", "N", "O", "P", "Q", "R", "S", "T", "U", "V", "W", "X", "Y", "Z">>

IsLower(ch) == \E k \in 1..Len(LowerCase) : LowerCase[k] = ch

IsUpper(ch) == \E k \in 1..Len(UpperCase) : UpperCase[k] = ch

\* char::to_ascii_uppercase
to_ascii_uppercase(ch) ==
    IF IsLower(ch) THEN UpperCase[CHOOSE k \in 1..Len(LowerCase) : LowerCase[k] = ch] ELSE ch

\* char::to_ascii_lowercase
to_ascii_lowercase(ch) ==
    IF IsUpper(ch) THEN LowerCase[CHOOSE k \in 1..Len(UpperCase) : UpperCase[k] = ch] ELSE ch

\* snakecase::ascii::to_snakecase on a name made of ASCII letters: lower case, with
\* a "_" where an upper-case letter follows a lower-case one
RECURSIVE to_snakecase(_)
to_snakecase(s) ==
    IF Len(s) = 0 THEN <<>>
    ELSE LET k == Len(s)
             front == to_snakecase(SubSeq(s, 1, k - 1))
         IN  IF IsUpper(s[k]) /\ k > 1 /\ IsLower(s[k - 1])
             THEN front \o <<"_", to_ascii_lowercase(s[k])>>
             ELSE Append(front, to_ascii_lowercase(s[k]))

KWORDS ==
    {<<"S", "e", "l", "f">>,
     <<"a", "b", "s", "t", "r", "a", "c", "t">>,
     <<"a", "s">>,
     <<"a", "s", "y", "n", "c">>,
     <<"a", "w", "a", "i", "t">>,
     <<"b", "e", "c", "o", "m", "e">>,
     <<"b", "o", "x">>,
     <<"b", "r", "e", "a", "k">>,
     <<"c", "o", "n", "s", "t">>,
     <<"c", "o", "n", "t", "i", "n", "u", "e">>,
     <<"c", "r", "a", "t", "e">>,
     <<"d", "o">>,
     <<"d", "y", "n">>,
     <<"e", "l", "s", "e">>,
     <<"e", "n", "u", "m">>,
     <<"e", "x", "t", "e", "r", "n">>,
     <<"f", "a", "l", "s", "e">>,
     <<"f", "i", "n", "a", "l">>,
     <<"f", "n">>,
     <<"f", "o", "r">>,
     <<"i", "f">>,
     <<"i", "m", "p", "l">>,
     <<"i", "n">>,
     <<"l", "e", "t">>,
     <<"l", "o", "o", "p">>,
     <<"m", "a", "c", "r", "o">>,
     <<"m", "a", "t", "c", "h">>,
     <<"m", "o", "d">>,
     <<"m", "o", "v", "e">>,
     <<"m", "u", "t">>,
     <<"o", "v", "e", "r", "r", "i", "d", "e">>,
     <<"p", "r", "i", "v">>,
     <<"p", "u", "b">>,
     <<"r", "e", "f">>,
     <<"r", "e", "t", "u", "r", "n">>,
     <<"s", "e", "l", "f">>,
     <<"s", "t", "a", "t", "i", "c">>,
     <<"s", "t", "r", "u", "c", "t">>,
     <<"s", "u", "p", "e", "r">>,
     <<"t", "r", "a", "i", "t">>,
     <<"t", "r", "u", "e">>,
     <<"t", "r", "y">>,
     <<"t", "y", "p", "e">>,
     <<"t", "y", "p", "e", "o", "f">>,
     <<"u", "n", "i", "o", "n">>,
     <<"u", "n", "s", "a", "f", "e">>,
     <<"u", "n", "s", "i", "z", "e", "d">>,
     <<"u", "s", "e">>,
     <<"v", "i", "r", "t", "u", "a", "l">>,
     <<"w", "h", "e", "r", "e">>,
     <<"w", "h", "i", "l", "e">>,
     <<"y", "i", "e", "l", "d">>}

\* str::replace('-', "_")
ReplaceHyphen(id) == [k \in 1..Len(id) |-> IF id[k] = "-" THEN "_" ELSE id[k]]

\* to_identifier without the test on KWORDS
to_identifier_NoKeywords(id) == ReplaceHyphen(id)

\* fn to_identifier(id: &str) -> String
to_identifier(id) ==
    IF id \in KWORDS THEN id \o <<"_">> ELSE ReplaceHyphen(id)

\* the loop of pascal_case over s, from its state (pascal, capitalize)
RECURSIVE PascalLoop(_, _, _)
PascalLoop(s, pascal, capitalize) ==
    IF Len(s) = 0 THEN pascal
    ELSE IF Head(s) = "_" THEN PascalLoop(Tail(s), pascal, TRUE)
    ELSE IF capitalize
         THEN PascalLoop(Tail(s), Append(pascal, to_ascii_uppercase(Head(s))), FALSE)
    ELSE PascalLoop(Tail(s), Append(pascal, Head(s)), FALSE)

\* pub fn pascal_case(s: &str) -> String
pascal_case(s) == PascalLoop(s, <<>>, TRUE)

\* format!("{}", n) of an integer n >= 0
RECURSIVE Decimal(_)
Decimal(n) ==
    LET digit == <<"0", "1", "2", "3", "4", "5", "6", "7", "8", "9">>[(n % 10) + 1]
    IN  IF n < 10 THEN <<digit>> ELSE Append(Decimal(n \div 10), digit)

\* gen_name once n has been incremented
gen_name(n) == <<"arg_">> \o Decimal(n)

\* ------------------------------------------------ inputs_output_from_args

In == "In"

Out == "Out"

\* IsInputArg taking an argument without direction for an output
IsInputArg_OnlyIn(a) == a.direction = Some(In)

\* the arm `None | Some(ArgDirection::In)` of the match on a.direction()
IsInputArg(a) == a.direction = None \/ a.direction = Some(In)

\* InputArgType with as_ref = false
InputArgType_ByValue(sig) == to_rust_type(sig, TRUE, FALSE)

\* the flags inputs_output_from_args gives to_rust_type for an input
InputArgType(sig) == to_rust_type(sig, TRUE, TRUE)

\* the flags inputs_output_from_args gives to_rust_type for an output
OutputArgType(sig) == to_rust_type(sig, FALSE, FALSE)

\* the match on output.len()
OutputType(out) ==
    IF Len(out) = 0 THEN <<"()">>
    ELSE IF Len(out) = 1 THEN out[1]
    ELSE <<"(">> \o Join(out, <<", ">>) \o <<")">>

\* the loop `for a in args`, from its state (inputs, output, n)
RECURSIVE ArgsLoop(_, _, _, _)
ArgsLoop(as, ins, out, n) ==
    IF Len(as) = 0 THEN [ok |-> TRUE, inputs |-> ins, output |-> out]
    ELSE LET a == Head(as)
         IN  IF IsInputArg(a)
             THEN LET t == InputArgType(a.ty)
                      named == a.name # None
                      arg == IF named THEN to_identifier(a.name[1]) ELSE gen_name(n + 1)
                  IN  IF ~t.ok THEN [ok |-> FALSE, inputs |-> <<>>, output |-> <<>>]
                      ELSE ArgsLoop(Tail(as), Append(ins, arg \o <<": ">> \o t.ty), out,
                                    IF named THEN n ELSE n + 1)
             ELSE LET t == OutputArgType(a.ty)
                  IN  IF ~t.ok THEN [ok |-> FALSE, inputs |-> <<>>, output |-> <<>>]
                      ELSE ArgsLoop(Tail(as), ins, Append(out, t.ty), n)

\* fn inputs_output_from_args(args: &[Arg]) -> (String, String)
inputs_output_from_args(as) ==
    LET l == ArgsLoop(as, <<<<"&self">>>>, <<>>, 0)
    IN  IF ~l.ok THEN l
        ELSE [ok |-> TRUE,
              inputs |-> Join(l.inputs, <<", ">>),
              output |-> <<" -> zbus::Result<">> \o OutputType(l.output) \o <<">">>]

\* the loop `for a in args` of parse_signal_args, from its state (inputs, n)
RECURSIVE SignalArgsLoop(_, _, _)
SignalArgsLoop(as, ins, n) ==
    IF Len(as) = 0 THEN [ok |-> TRUE, inputs |-> ins]
    ELSE LET a == Head(as)
             t == to_rust_type(a.ty, TRUE, FALSE)
             named == a.name # None
             arg == IF named THEN to_identifier(a.name[1]) ELSE gen_name(n + 1)
         IN  IF ~t.ok THEN [ok |-> FALSE, inputs |-> <<>>]
             ELSE SignalArgsLoop(Tail(as), Append(ins, arg \o <<": ">> \o t.ty),
                                 IF named THEN n ELSE n + 1)

\* fn parse_signal_args(args: &[Arg]) -> String
parse_signal_args(as) ==
    LET l == SignalArgsLoop(as, <<<<"&self">>>>, 0)
    IN  IF ~l.ok THEN l ELSE [ok |-> TRUE, inputs |-> Join(l.inputs, <<", ">>)]

\* ------------------------------------------------------- the translator run

Idle ==
    /\ args = <<>> /\ inputs = <<>> /\ output = <<>>
    /\ iface = None /\ f = <<>>

InitType ==
    /\ pc = "call"
    /\ ty \in Signatures
    /\ input \in BOOLEAN
    /\ as_ref \in BOOLEAN
    /\ it = 0
    /\ ret = <<>>
    /\ calls = <<>>
    /\ Idle

\* one call to_rust_type(ty, input, as_ref)
ToRustType ==
    /\ pc = "call"
    /\ LET r == to_rust_type(ty, input, as_ref)
       IN  /\ pc' = IF r.ok THEN "done" ELSE "panicked"
           /\ ret' = r.ty
           /\ it' = r.it
           /\ calls' = r.calls
    /\ UNCHANGED <<ty, input, as_ref, args, inputs, output, iface, f>>

NextType == ToRustType

SpecType == InitType /\ [][NextType]_vars

\* --------------------------------------------------------------- the inputs

\* most arguments of one method or signal drawn
MaxArgs == 3
\* most members of one interface drawn
MaxMembers == 3

\* the arguments of the methods and signals of tests::EXAMPLE
FrobateArgs ==
    <<[name |-> Some(<<"f", "o", "z">>), ty |-> <<"i">>, direction |-> None],
      [name |-> Some(<<"f", "o", "o">>), ty |-> <<"i">>, direction |-> Some(In)],
      [name |-> Some(<<"b", "a", "r">>), ty |-> <<"s">>, direction |-> Some(Out)],
      [name |-> Some(<<"b", "a", "z">>), ty |-> <<"a", "{", "u", "s", "}">>, direction |-> Some(Out)]>>

BazifyArgs ==
    <<[name |-> Some(<<"b", "a", "r">>), ty |-> <<"(", "i", "i", "u", ")">>, direction |-> Some(In)],
      [name |-> Some(<<"b", "a", "r">>), ty |-> <<"v">>, direction |-> Some(Out)]>>

MogrifyMeArgs ==
    <<[name |-> Some(<<"b", "a", "r">>), ty |-> <<"(", "i", "i", "a", "v", ")">>, direction |-> Some(In)]>>

ChangedArgs ==
    <<[name |-> Some(<<"n", "e", "w", "_", "v", "a", "l", "u", "e">>), ty |-> <<"b">>, direction |-> None]>>

\* arguments without a name, named by a keyword, named with a hyphen
OtherArgs ==
    <<[name |-> None, ty |-> <<"s">>, direction |-> Some(In)],
      [name |-> None, ty |-> <<"a", "i">>, direction |-> None],
      [name |-> Some(<<"t", "y", "p", "e">>), ty |-> <<"o">>, direction |-> Some(In)],
      [name |-> Some(<<"a", "-", "b">>), ty |-> <<"g">>, direction |-> Some(Out)]>>

\* the argument lists of tests::EXAMPLE
ExampleArgs == {FrobateArgs, BazifyArgs, MogrifyMeArgs, ChangedArgs}

Range(q) == {q[k] : k \in 1..Len(q)}

ArgPool ==
    Range(FrobateArgs) \cup Range(BazifyArgs) \cup Range(MogrifyMeArgs)
        \cup Range(ChangedArgs) \cup Range(OtherArgs)

\* the sequences of at most n elements of S
RECURSIVE SeqsUpTo(_, _)
SeqsUpTo(S, n) ==
    IF n = 0 THEN {<<>>}
    ELSE LET shorter == SeqsUpTo(S, n - 1)
         IN  shorter \cup {Append(q, x) : q \in shorter, x \in S}

\* the sequences of at most n distinct elements of S
RECURSIVE DistinctSeqsUpTo(_, _)
DistinctSeqsUpTo(S, n) ==
    IF n = 0 THEN {<<>>}
    ELSE LET shorter == DistinctSeqsUpTo(S, n - 1)
         IN  shorter \cup UNION {{Append(q, x) : x \in S \ Range(q)} : q \in shorter}

\* ------------------------------------------- the inputs_output_from_args run

NoTranslation ==
    /\ ty = <<>> /\ input = FALSE /\ as_ref = FALSE
    /\ it = 0 /\ ret = <<>> /\ calls = <<>>

InitArgs ==
    /\ pc = "call"
    /\ args \in SeqsUpTo(ArgPool, MaxArgs) \cup ExampleArgs
    /\ inputs = <<>>
    /\ output = <<>>
    /\ iface = None
    /\ f = <<>>
    /\ NoTranslation

\* one call inputs_output_from_args(args)
InputsOutputFromArgs ==
    /\ pc = "call"
    /\ LET r == inputs_output_from_args(args)
       IN  /\ pc' = IF r.ok THEN "done" ELSE "panicked"
           /\ inputs' = r.inputs
           /\ output' = r.output
    /\ UNCHANGED <<ty, input, as_ref, it, ret, calls, args, iface, f>>

NextArgs == InputsOutputFromArgs

SpecArgs == InitArgs /\ [][NextArgs]_vars

\* ------------------------------------------------------------ GenTrait::fmt

\* a.name().partial_cmp(&b.name()): a < b in the byte-wise lexicographic order of str
RECURSIVE StrLess(_, _)
StrLess(a, b) ==
    IF Len(b) = 0 THEN FALSE
    ELSE IF Len(a) = 0 THEN TRUE
    ELSE IF Head(a) = Head(b) THEN StrLess(Tail(a), Tail(b))
    ELSE ByteLess(Head(a), Head(b))

\* one insertion of the stable sort: x goes after the elements that are not greater
RECURSIVE InsertByName(_, _)
InsertByName(sorted, x) ==
    IF Len(sorted) = 0 THEN <<x>>
    ELSE IF StrLess(x.name, Head(sorted).name) THEN <<x>> \o sorted
    ELSE <<Head(sorted)>> \o InsertByName(Tail(sorted), x)

\* SortByName leaving the members in the order given
SortByName_Unsorted(v) == v

\* v.sort_by(|a, b| a.name().partial_cmp(&b.name()).unwrap()): a stable sort
RECURSIVE SortByName(_)
SortByName(v) ==
    IF Len(v) = 0 THEN <<>>
    ELSE InsertByName(SortByName(SubSeq(v, 1, Len(v) - 1)), v[Len(v)])

\* str::rfind('.'): the index of the last '.', or 0 for None
RECURSIVE RFindDot(_)
RFindDot(s) ==
    IF Len(s) = 0 THEN 0
    ELSE IF s[Len(s)] = "." THEN Len(s)
    ELSE RFindDot(SubSeq(s, 1, Len(s) - 1))

\* to_identifier(&to_snakecase(name))
MemberIdent(name) == to_identifier(to_snakecase(name))

\* pascal_case(&name) != m.name().as_str(): the wire name has to be kept
NeedsNameOverride(ident, name) == pascal_case(ident) # name

\* the lines written for one method, or a panic
MethodLines(m) ==
    LET io == inputs_output_from_args(m.args)
        name == MemberIdent(m.name)
    IN  IF ~io.ok THEN [ok |-> FALSE, lines |-> <<>>]
        ELSE [ok |-> TRUE,
              lines |->
                  <<<<>>, <<"    /// ">> \o m.name \o <<" method">>>>
                  \o (IF NeedsNameOverride(name, m.name)
                      THEN <<<<"    #[dbus_proxy(name = \"">> \o m.name \o <<"\")]">>>>
                      ELSE <<>>)
                  \o <<<<"    fn ">> \o name \o <<"(">> \o io.inputs \o <<")">>
                          \o io.output \o <<";">>>>]

\* the lines written for one signal, or a panic
SignalLines(sg) ==
    LET a == parse_signal_args(sg.args)
        name == MemberIdent(sg.name)
    IN  IF ~a.ok THEN [ok |-> FALSE, lines |-> <<>>]
        ELSE [ok |-> TRUE,
              lines |->
                  <<<<>>, <<"    /// ">> \o sg.name \o <<" signal">>,
                    IF NeedsNameOverride(name, sg.name)
                    THEN <<"    #[dbus_proxy(signal, name = \"">> \o sg.name \o <<"\")]">>
                    ELSE <<"    #[dbus_proxy(signal)]">>,
                    <<"    fn ">> \o name \o <<"(">> \o a.inputs
                        \o <<") -> zbus::Result<()>;">>>>]

\* the lines written for one property, or a panic
PropertyLines(p) ==
    LET name == MemberIdent(p.name)
        out == to_rust_type(p.ty, FALSE, FALSE)
        in == to_rust_type(p.ty, TRUE, TRUE)
    IN  IF (p.access.read /\ ~out.ok) \/ (p.access.write /\ ~in.ok)
        THEN [ok |-> FALSE, lines |-> <<>>]
        ELSE [ok |-> TRUE,
              lines |->
                  <<<<>>, <<"    /// ">> \o p.name \o <<" property">>,
                    IF NeedsNameOverride(name, p.name)
                    THEN <<"    #[dbus_proxy(property, name = \"">> \o p.name \o <<"\")]">>
                    ELSE <<"    #[dbus_proxy(property)]">>>>
                  \o (IF p.access.read
                      THEN <<<<"    fn ">> \o name \o <<"(&self) -> zbus::Result<">>
                              \o out.ty \o <<">;">>>>
                      ELSE <<>>)
                  \o (IF p.access.write
                      THEN <<<<"    fn set_">> \o name \o <<"(&self, value: ">> \o in.ty
                              \o <<") -> zbus::Result<()>;">>>>
                      ELSE <<>>)]

\* the `?` of the writes of a loop over the members: the lines of each member in
\* order, or a panic
RECURSIVE AllLines(_)
AllLines(rs) ==
    IF Len(rs) = 0 THEN [ok |-> TRUE, lines |-> <<>>]
    ELSE LET t == AllLines(Tail(rs))
         IN  IF Head(rs).ok /\ t.ok THEN [ok |-> TRUE, lines |-> Head(rs).lines \o t.lines]
             ELSE [ok |-> FALSE, lines |-> <<>>]

\* impl Display for GenTrait: fn fmt(&self, f: &mut Formatter<'_>)
fmt(i) ==
    LET idx == RFindDot(i.name)
        name == SubSeq(i.name, idx + 1, Len(i.name))
        methods == SortByName(i.methods)
        signals == SortByName(i.signals)
        props == SortByName(i.properties)
        ms == AllLines([k \in 1..Len(methods) |-> MethodLines(methods[k])])
        ss == AllLines([k \in 1..Len(signals) |-> SignalLines(signals[k])])
        ps == AllLines([k \in 1..Len(props) |-> PropertyLines(props[k])])
    IN  IF idx = 0 \/ ~ms.ok \/ ~ss.ok \/ ~ps.ok THEN [ok |-> FALSE, lines |-> <<>>]
        ELSE [ok |-> TRUE,
              lines |->
                  <<<<"#[dbus_proxy(interface = \"">> \o i.name \o <<"\")]">>,
                    <<"trait ">> \o name \o <<" {">>>>
                  \o ms.lines \o ss.lines \o ps.lines
                  \o <<<<"}">>>>]

\* ----------------------------------------------------------- the fmt run

ReadOnly == [read |-> TRUE, write |-> FALSE]

WriteOnly == [read |-> FALSE, write |-> TRUE]

ReadWrite == [read |-> TRUE, write |-> TRUE]

\* the methods drawn: those of tests::EXAMPLE, one named by a keyword, one in
\* lower case
MethodPool ==
    {[name |-> <<"F", "r", "o", "b", "a", "t", "e">>, args |-> FrobateArgs],
     [name |-> <<"B", "a", "z", "i", "f", "y">>, args |-> BazifyArgs],
     [name |-> <<"M", "o", "g", "r", "i", "f", "y", "M", "e">>, args |-> MogrifyMeArgs],
     [name |-> <<"t", "y", "p", "e">>, args |-> <<>>],
     [name |-> <<"f", "r", "o", "b", "a", "t", "e">>, args |-> OtherArgs]}

\* the signals drawn
SignalPool ==
    {[name |-> <<"C", "h", "a", "n", "g", "e", "d">>, args |-> ChangedArgs],
     [name |-> <<"S", "e", "l", "f">>, args |-> <<>>],
     [name |-> <<"c", "h", "a", "n", "g", "e", "d", "N", "o", "w">>, args |-> OtherArgs]}

\* the properties drawn
PropertyPool ==
    {[name |-> <<"B", "a", "r">>, ty |-> <<"y">>, access |-> ReadWrite],
     [name |-> <<"t", "y", "p", "e">>, ty |-> <<"s">>, access |-> ReadOnly],
     [name |-> <<"A", "b", "c">>, ty |-> <<"a", "s">>, access |-> WriteOnly]}

InterfaceName ==
    <<"c", "o", "m", ".", "e", "x", "a", "m", "p", "l", "e", ".", "S", "a", "m", "p", "l", "e", "I", "n", "t", "e", "r", "f", "a", "c", "e", "0">>

Interface(ms, ss, ps) ==
    [name |-> InterfaceName, methods |-> ms, signals |-> ss, properties |-> ps]

\* the interfaces of at most MaxMembers members with unique names within each kind
SmallInterfaces ==
    {Interface(c[1], c[2], c[3]) :
        c \in {d \in DistinctSeqsUpTo(MethodPool, MaxMembers)
                       \X DistinctSeqsUpTo(SignalPool, MaxMembers)
                       \X DistinctSeqsUpTo(PropertyPool, MaxMembers) :
                   Len(d[1]) + Len(d[2]) + Len(d[3]) <= MaxMembers}}

\* the interfaces whose one member has a keyword as its wire name
KeywordInterfaces ==
    {Interface(<<[name |-> k, args |-> <<>>]>>, <<>>, <<>>) : k \in KWORDS}
        \cup {Interface(<<>>, <<[name |-> k, args |-> <<>>]>>, <<>>) : k \in KWORDS}
        \cup {Interface(<<>>, <<>>, <<[name |-> k, ty |-> <<"y">>, access |-> ReadWrite]>>) :
                 k \in KWORDS}

InitGen ==
    /\ pc = "call"
    /\ iface \in {Some(i) : i \in SmallInterfaces \cup KeywordInterfaces}
    /\ f = <<>>
    /\ args = <<>> /\ inputs = <<>> /\ output = <<>>
    /\ NoTranslation

\* one format!("{}", GenTrait(&iface))
Fmt ==
    /\ pc = "call"
    /\ LET r == fmt(iface[1])
       IN  /\ pc' = IF r.ok THEN "done" ELSE "panicked"
           /\ f' = r.lines
    /\ UNCHANGED <<ty, input, as_ref, it, ret, calls, args, inputs, output, iface>>

NextGen == Fmt

SpecGen == InitGen /\ [][NextGen]_vars

\* --------------------------------------------- claims about to_rust_type

\* the call has returned a type (it has not panicked)
Returned == pc = "done"

\* the members of the structure signature s = "(" m1 ... mN ")", or the two parts of
\* the dict entry "{" K V "}", that starts after i characters
RECURSIVE MembersOf(_, _)
MembersOf(s, i) ==
    IF i >= Len(s) \/ IsEndChar(s[i + 1]) THEN <<>>
    ELSE LET e == ParseType(s, i)
         IN  IF e = -1 THEN <<>> ELSE <<SubSeq(s, i + 1, e)>> \o MembersOf(s, e)

\* the decode of the sub-signature m as a nested element of the current call
ElementDecode(m) == to_rust_type(m, input, FALSE).ty

\* the decodes of the sub-signatures ms, in order
ElementDecodes(ms) == [k \in 1..Len(ms) |-> ElementDecode(ms[k])]

\* a type is borrowed: it begins with "&" or carries a lifetime
Borrowed(t) == (Len(t) > 0 /\ t[1] = "&") \/ (\E k \in 1..Len(t) : t[k] = "<'_>")

\* C1 (as claimed): when to_rust_type returns on a well-formed signature, the cursor
\* has consumed every character of it, closing delimiters included.
C1_ConsumesWholeSignature ==
    (Returned /\ WellFormed(ty)) => it = Len(ty)

\* C2 (as claimed): a structure "(" m1 ... mN ")" decodes to the element decode of m1
\* when N = 1 and to an aggregate of the N element decodes, in order, when N > 1.
C2_StructureDecode ==
    (Returned /\ WellFormed(ty) /\ ty[1] = "(") =>
        LET ms == MembersOf(ty, 1)
            agg == <<"(">> \o Join(ElementDecodes(ms), <<", ">>) \o <<")">>
        IN  IF Len(ms) = 1 THEN ret = ElementDecode(ms[1])
            ELSE ret \in {agg, <<"&">> \o agg}

\* C3 (as claimed): "a{" K V "}" decodes to std::collections::HashMap< decode of K,
\* decode of V >.
C3_DictDecode ==
    (Returned /\ WellFormed(ty) /\ Len(ty) >= 2 /\ ty[1] = "a" /\ ty[2] = "{") =>
        LET kv == MembersOf(ty, 2)
        IN  /\ Len(kv) = 2
            /\ ret = <<"std::collections::HashMap<">> \o ElementDecode(kv[1])
                        \o <<", ">> \o ElementDecode(kv[2]) \o <<">">>

\* the four signatures C4 is about
OwnableSigs == {<<"s">>, <<"o">>, <<"g">>, <<"v">>}

\* C4 (as claimed): with is_input = false, 's', 'o', 'g' and 'v' never decode to a
\* borrowed form, whatever prefer_reference is.
C4_OutputNeverBorrowed ==
    (Returned /\ ~input /\ ty \in OwnableSigs) => ~Borrowed(ret)

\* C4 (amended): with is_input = false, 'o', 'g' and 'v' never decode to a borrowed
\* form, whatever prefer_reference is, and 's' decodes to a borrowed form (&str)
\* exactly when prefer_reference is true.
C4_OutputBorrowedOnlyStrRef ==
    (Returned /\ ~input /\ ty \in OwnableSigs) =>
        (Borrowed(ret) <=> (ty = <<"s">> /\ as_ref))

\* C4 witness: the variant decoded as an output with prefer_reference set is owned
C4_Witness ==
    /\ Returned /\ ~input /\ as_ref /\ ty = <<"v">>
    /\ ret = <<"zbus::zvariant::OwnedValue">>

\* s contains a character that is no type code and no delimiter
HasUnknownCode(s) ==
    \E k \in 1..Len(s) : s[k] \notin BasicCodes \cup {"a", "(", ")", "{", "}"}

\* the number of k <= n with s[k] in cs
RECURSIVE Count(_, _, _)
Count(s, n, cs) ==
    IF n = 0 THEN 0 ELSE Count(s, n - 1, cs) + (IF s[n] \in cs THEN 1 ELSE 0)

\* a structure or dict entry of s is opened and never closed
NeverClosed(s) == Count(s, Len(s), {"(", "{"}) > Count(s, Len(s), {")", "}"})

\* characters remain after the outermost type of s
TrailingChars(s) == ParseType(s, 0) # -1 /\ ParseType(s, 0) < Len(s)

\* C5 (as claimed): to_rust_type fails on a signature that contains an unknown type
\* code, that never closes a structure or dict entry, or that goes on after its
\* outermost type.
C5_MalformedFails ==
    (pc # "call" /\ (HasUnknownCode(ty) \/ NeverClosed(ty) \/ TrailingChars(ty)))
        => pc = "panicked"

\* the texts of the nested decodes of a trace of invocations
NestedTexts(cs) == [k \in 1..(Len(cs) - 1) |-> cs[k + 1].ty]

\* C10 (as claimed): every nested decode receives prefer_reference = false, and the
\* texts of the nested decodes are the same for every value of the outermost is_input
\* and prefer_reference.
C10_NoFlagReachesNested ==
    Returned =>
        /\ \A k \in 2..Len(calls) : calls[k].as_ref = FALSE
        /\ \A in \in BOOLEAN, ref \in BOOLEAN :
               NestedTexts(to_rust_type(ty, in, ref).calls) = NestedTexts(calls)

\* C10 (amended): every nested decode receives prefer_reference = false and the
\* outermost call's is_input unchanged; the texts of the nested decodes are the same
\* for both values of the outermost prefer_reference (they depend on is_input).
C10_OnlyInputReachesNested ==
    Returned =>
        /\ \A k \in 2..Len(calls) : calls[k].as_ref = FALSE /\ calls[k].input = input
        /\ calls[1].as_ref = as_ref
        /\ \A ref \in BOOLEAN :
               NestedTexts(to_rust_type(ty, input, ref).calls) = NestedTexts(calls)

\* C10 witness: an input with prefer_reference set whose nested decodes include a
\* string, decoded as &str because is_input reached it
C10_Witness ==
    /\ Returned /\ input /\ as_ref /\ Len(calls) > 2
    /\ \E k \in 2..Len(calls) : calls[k].ty = <<"&", "str">>

\* ---------------------------------- claims about inputs_output_from_args

\* text has piece as a contiguous part
Contains(text, piece) ==
    \E p \in 0..(Len(text) - Len(piece)) : SubSeq(text, p + 1, p + Len(piece)) = piece

\* the arguments a caller supplies: direction "in" or none
DeclaredInputs(as) ==
    SelectSeq(as, LAMBDA a : a.direction = None \/ a.direction = Some(In))

\* the arguments the callee returns: direction "out"
DeclaredOutputs(as) == SelectSeq(as, LAMBDA a : a.direction = Some(Out))

\* the parameter of the k-th of the inputs ins: its name, or arg_<j> for the j-th
\* input without a name, then its type as an input preferring a reference
ExpectedParam(ins, k) ==
    LET unnamed == Cardinality({j \in 1..k : ins[j].name = None})
        name == IF ins[k].name = None THEN <<"arg_">> \o Decimal(unnamed)
                ELSE to_identifier(ins[k].name[1])
    IN  name \o <<": ">> \o to_rust_type(ins[k].ty, TRUE, TRUE).ty

\* C7: inputs_output_from_args puts exactly the arguments of direction "in" or none
\* into the parameter list, after &self and in declared order, and exactly those of
\* direction "out" into the return type, in declared order: () for none, the type
\* itself for one, an aggregate of all for more.
C7_InputsOutputPartition ==
    Returned =>
        LET ins == DeclaredInputs(args)
            outs == DeclaredOutputs(args)
            params == [k \in 1..Len(ins) |-> ExpectedParam(ins, k)]
            types == [k \in 1..Len(outs) |-> to_rust_type(outs[k].ty, FALSE, FALSE).ty]
            result == IF Len(outs) = 0 THEN <<"()">>
                      ELSE IF Len(outs) = 1 THEN types[1]
                      ELSE <<"(">> \o Join(types, <<", ">>) \o <<")">>
        IN  /\ inputs = Join(<<<<"&self">>>> \o params, <<", ">>)
            /\ output = <<" -> zbus::Result<">> \o result \o <<">">>

\* C7 witness: Frobate of tests::EXAMPLE, two inputs (one without direction) and two
\* outputs
C7_Witness ==
    /\ Returned /\ args = FrobateArgs
    /\ inputs = <<"&self", ", ", "f", "o", "z", ": ", "i32", ", ", "f", "o", "o", ": ", "i32">>
    /\ output = <<" -> zbus::Result<", "(", "String", ", ", "std::collections::HashMap<",
                  "u32", ", ", "String", ">", ")", ">">>

\* a is an input whose signature is a structure of more than one member
IsStructInput(a) ==
    /\ a.direction = None \/ a.direction = Some(In)
    /\ WellFormed(a.ty) /\ a.ty[1] = "(" /\ Len(MembersOf(a.ty, 1)) > 1

\* the aggregate of the members of the structure signature sig of an input
InputAggregate(sig) ==
    LET ms == MembersOf(sig, 1)
    IN  <<"(">> \o Join([k \in 1..Len(ms) |-> to_rust_type(ms[k], TRUE, FALSE).ty], <<", ">>)
            \o <<")">>

\* the return type of a method whose one output is a variant
VariantOutput ==
    (Len(DeclaredOutputs(args)) = 1 /\ DeclaredOutputs(args)[1].ty = <<"v">>)
        => output = <<" -> zbus::Result<", "zbus::zvariant::OwnedValue", ">">>

LexLess(a, b) ==
    \E k \in 1..Len(b) :
        /\ k <= Len(a) + 1
        /\ SubSeq(a, 1, k - 1) = SubSeq(b, 1, k - 1)
        /\ k = Len(a) + 1 \/ ByteLess(a[k], b[k])

\* the doc comment lines of f, one per member emitted, in the order of emission
DocLines == SelectSeq(f, LAMBDA l : Len(l) > 0 /\ l[1] = "    /// ")

\* the wire name a doc comment line names
DocName(l) == SubSeq(l, 2, Len(l) - 1)

\* the lines k (from..to) of d are the members ms, of the kind of the suffix, in
\* ascending order of wire name
GroupInOrder(d, from, to, ms, suffix) ==
    /\ \A k \in from..to : d[k][Len(d[k])] = suffix
    /\ {DocName(d[k]) : k \in from..to} = {m.name : m \in Range(ms)}
    /\ \A k \in from..(to - 1) : LexLess(DocName(d[k]), DocName(d[k + 1]))

\* the orders a caller may give the members ms in
InputOrders(ms) == {q \in DistinctSeqsUpTo(Range(ms), Len(ms)) : Len(q) = Len(ms)}

\* C6: GenTrait emits the methods, then the signals, then the properties, each group
\* in ascending case-sensitive lexicographic order of wire name, and emits the same
\* text for every order of the members in the input.
C6_MembersSortedByName ==
    Returned =>
        LET i == iface[1]
            d == DocLines
            nm == Len(i.methods)
            ns == Len(i.signals)
            np == Len(i.properties)
        IN  /\ Len(d) = nm + ns + np
            /\ GroupInOrder(d, 1, nm, i.methods, " method")
            /\ GroupInOrder(d, nm + 1, nm + ns, i.signals, " signal")
            /\ GroupInOrder(d, nm + ns + 1, nm + ns + np, i.properties, " property")
            /\ \A ms \in InputOrders(i.methods), ss \in InputOrders(i.signals),
                  ps \in InputOrders(i.properties) :
                   fmt(Interface(ms, ss, ps)).lines = f

\* C6 witness: two methods given in descending order and a signal are emitted
C6_Witness ==
    /\ Returned
    /\ Len(iface[1].methods) = 2 /\ Len(iface[1].signals) = 1
    /\ LexLess(iface[1].methods[2].name, iface[1].methods[1].name)
    /\ Len(DocLines) = 3
    /\ DocName(DocLines[1]) = iface[1].methods[2].name

\* the members of the interface, each with the suffix of its doc comment and the
\* beginning of its name override annotation
KindedMembers(i) ==
    {[name |-> m.name, suffix |-> " method", override |-> "    #[dbus_proxy(name = \""] :
        m \in Range(i.methods)}
    \cup {[name |-> m.name, suffix |-> " signal",
           override |-> "    #[dbus_proxy(signal, name = \""] : m \in Range(i.signals)}
    \cup {[name |-> m.name, suffix |-> " property",
           override |-> "    #[dbus_proxy(property, name = \""] : m \in Range(i.properties)}

\* the index in f of the doc comment line of member m
DocIndex(m) == CHOOSE k \in 1..Len(f) : f[k] = <<"    /// ">> \o m.name \o <<m.suffix>>

\* the declaration of member m carries the override annotation name = "<wire name>"
HasNameOverride(m) == f[DocIndex(m) + 1] = <<m.override>> \o m.name \o <<"\")]">>

\* the line is a declaration `fn <ident>(` or `fn set_<ident>(`
DeclaresIdent(line, ident) ==
    /\ Len(line) >= Len(ident) + 2
    /\ line[1] \in {"    fn ", "    fn set_"}
    /\ SubSeq(line, 2, Len(ident) + 1) = ident
    /\ line[Len(ident) + 2] \in {"(", "(&self) -> zbus::Result<", "(&self, value: "}

\* the first declaration of member m is of ident: it follows the doc comment line and
\* the annotation line, if any (a method without override has none)
DeclaredAs(m, ident) ==
    LET k == DocIndex(m)
    IN  IF m.suffix = " method" /\ ~HasNameOverride(m)
        THEN DeclaresIdent(f[k + 1], ident)
        ELSE DeclaresIdent(f[k + 2], ident)

\* the word in lower case with "_" appended
SuffixedWord(name) == [k \in 1..Len(name) |-> to_ascii_lowercase(name[k])] \o <<"_">>

\* C9 (as claimed): a member whose wire name is a reserved word is declared under
\* the normalized word with "_" appended, without a name override annotation.
C9_KeywordNoOverride ==
    Returned =>
        \A m \in KindedMembers(iface[1]) :
            m.name \in KWORDS =>
                DeclaredAs(m, SuffixedWord(m.name)) /\ ~HasNameOverride(m)

\* C9 (amended): a member whose wire name is a reserved word is declared under the
\* normalized word with "_" appended; the declaration has no name override annotation
\* when the wire name begins with an upper-case letter ("Self") and has the
\* annotation name = "<wire name>" when it begins with a lower-case one (every other
\* entry of KWORDS, "type" among them).
C9_KeywordOverrideUnlessCapitalized ==
    Returned =>
        \A m \in KindedMembers(iface[1]) :
            m.name \in KWORDS =>
                /\ DeclaredAs(m, SuffixedWord(m.name))
                /\ HasNameOverride(m) <=> IsLower(m.name[1])

\* C9 witness: a method whose wire name is "type" is declared as type_ under the
\* annotation name = "type"
C9_Witness ==
    /\ Returned
    /\ \E k \in 1..(Len(f) - 1) :
           /\ f[k] = <<"    #[dbus_proxy(name = \"", "t", "y", "p", "e", "\")]">>
           /\ f[k + 1] = <<"    fn ", "t", "y", "p", "e", "_", "(", "&self", ")",
                           " -> zbus::Result<", "()", ">", ";">>

====
